---- MODULE Spec2Model ----
(***************************************************************************)
(* pc2mqtt: the MQTT connection lifecycle, the Home Assistant publication  *)
(* protocol, the command dispatcher and the entity registry.               *)
(*                                                                         *)
(*   src/internal/system/commands.go  lines 1-39   package system          *)
(*   src/internal/system/commands.go  lines 41-324 package main            *)
(*   src/go.mod                       lines 16-153 package entities        *)
(*                                                                         *)
(* Strings are TLA+ strings and are concatenated as the code concatenates  *)
(* them, so a topic is the very text the program hands to the transport.   *)
(***************************************************************************)
EXTENDS Naturals, Sequences, FiniteSets, TLC

VARIABLES
    appConf,                \* appconfig.RequireConfig(): the loaded configuration
    goos,                   \* runtime.GOOS
    queried,                \* results of the GetEntities() calls made so far
    mainPc,                 \* position of func main
    exited,                 \* the process has terminated
    exitCode,               \* its exit status
    will,                   \* the last will given to the client options
    sigChan,                \* sigChan: buffered channel of capacity 1
    sigsSent,               \* termination signals raised by the environment
    sigPc,                  \* position of the signal-handling goroutine
    shutdownTrace,          \* what the shutdown path has done, in order
    shutdownLog,            \* what publishOfflineStatus logged
    mainCtxDone,            \* mainCancel() has been called
    connState,              \* the transport's connection status
    connectToken,           \* the token returned by client.Connect()
    connects,               \* successful connection events so far
    cbConnect,              \* OnConnect callbacks the transport has yet to run
    connectionEstablished,  \* channel of capacity 1: number of buffered signals
    connectionLost,         \* channel of capacity 1: number of buffered signals
    initialConnectionDone,  \* the package-level flag
    spawned,                \* post-connect goroutines started so far
    g,                      \* the post-connect goroutines: pc, loop index, locals
    sent,                   \* per goroutine: the client.Publish calls it made
    subCalls,               \* per goroutine: the SubscribeMultiple calls it made
    errorLogged,            \* a post-connect publish or subscribe logged an error
    retained,               \* broker: retained payload per topic ("" if none)
    route,                  \* goroutine whose handler the client routes to (0: none)
    brokerSubscribed,       \* broker holds this session's command subscriptions
    messageCount,           \* per handler closure: its messageCount
    handled,                \* inbound messages handled so far
    lastDispatch,           \* what the handler did with the latest message
    actionQueue,            \* actions queued by QueueAction, not yet run
    actionLog,              \* the button actions run so far: what each did
    startedCmds,            \* OS commands started by cmd.Start(), in order
    logged                  \* kinds of log lines written by handler and actions

vars == << appConf, goos, queried, mainPc, exited, exitCode, will, sigChan,
           sigsSent, sigPc, shutdownTrace, shutdownLog, mainCtxDone, connState,
           connectToken, connects, cbConnect, connectionEstablished,
           connectionLost, initialConnectionDone, spawned, g, sent, subCalls,
           errorLogged,
           retained, route, brokerSubscribed, messageCount, handled,
           lastDispatch, actionQueue, actionLog, startedCmds, logged >>

(***************************************************************************)
(* Bounds of the model.                                                    *)
(***************************************************************************)
MaxConnects == 2     \* successful connection events (1 connect + reconnects)
MaxSignals  == 1     \* termination signals the environment raises
MaxMessages == 2     \* inbound messages handed to the dispatch handler
MaxQueries  == 2     \* GetEntities() calls recorded in  queried
ShutdownConnects == 1  \* connection events explored together with the shutdown path

(***************************************************************************)
(* package system (commands.go 1-39)                                       *)
(***************************************************************************)
WINDOWS == "windows"
MACOS   == "darwin"
LINUX   == "linux"

\* A slip: the default branch falls back to the Linux command.
GetShutdownCommandFallback(os) ==
    CASE os = WINDOWS -> [cmd |-> <<"shutdown", "/s">>, err |-> ""]
      [] os = MACOS   -> [cmd |-> <<"shutdown", "-h", "now">>, err |-> ""]
      [] OTHER        -> [cmd |-> <<"systemctl", "poweroff", "--ignore-inhibitors">>,
                          err |-> ""]

\* An *exec.Cmd is the sequence <<name, arg...>>; err = "" is a nil error.
GetShutdownCommand(os) ==
    CASE os = WINDOWS -> [cmd |-> <<"shutdown", "/s">>, err |-> ""]
      [] os = MACOS   -> [cmd |-> <<"shutdown", "-h", "now">>, err |-> ""]
      [] os = LINUX   -> [cmd |-> <<"systemctl", "poweroff", "--ignore-inhibitors">>,
                          err |-> ""]
      [] OTHER        -> [cmd |-> <<>>, err |-> os \o " does not support shutdown"]

GetRebootCommand(os) ==
    CASE os = WINDOWS -> [cmd |-> <<"shutdown", "/r">>, err |-> ""]
      [] os = MACOS   -> [cmd |-> <<"reboot">>, err |-> ""]
      [] os = LINUX   -> [cmd |-> <<"systemctl", "reboot", "--ignore-inhibitors">>,
                          err |-> ""]
      [] OTHER        -> [cmd |-> <<>>, err |-> os \o " does not support reboot"]

(***************************************************************************)
(* package entities (go.mod 16-153)                                        *)
(***************************************************************************)
payloadOnline  == "online"
payloadOffline == "offline"

\* runtime.GOARCH of the build
GOARCH == "amd64"

GetDeviceAvailability ==
    [ Topic               |-> appConf.DeviceName \o "/state",
      PayloadAvailable    |-> payloadOnline,
      PayloadNotAvailable |-> payloadOffline ]

GetDevice ==
    [ Identifiers  |-> appConf.DeviceId,
      Manufacturer |-> goos \o "/" \o GOARCH,
      Model        |-> appConf.DeviceName,
      Name         |-> appConf.DeviceName ]

\* BinarySensor{...}: the host power sensor (go.mod 34-52)
PowerSensor ==
    [ Kind   |-> "BinarySensor",
      Action |-> "none",
      DiscoveryTopic |-> appConf.AutoDiscoveryPrefix \o "/binary_sensor/"
                         \o appConf.DeviceId \o "/" \o appConf.DeviceName
                         \o "_sensor_power/config",
      DiscoveryConfig |->
        [ Device          |-> GetDevice,
          Availability    |-> [ Topic |-> appConf.DeviceName
                                          \o "/binary_sensor/availability",
                                PayloadAvailable    |-> payloadOnline,
                                PayloadNotAvailable |-> payloadOffline ],
          DefaultEntityId |-> "binary_sensor." \o appConf.DeviceName \o "_sensor_power",
          UniqueId        |-> appConf.DeviceName \o "_sensor_power",
          Name            |-> "Power",
          Icon            |-> "mdi:power",
          StateTopic      |-> GetDeviceAvailability.Topic,
          CommandTopic    |-> "",
          PayloadOn       |-> GetDeviceAvailability.PayloadAvailable,
          PayloadOff      |-> GetDeviceAvailability.PayloadNotAvailable,
          Qos             |-> 1 ] ]

\* A slip in the template: the device name and the device id change places.
ShutdownDiscoveryTopicSwapped ==
    appConf.AutoDiscoveryPrefix \o "/button/" \o appConf.DeviceName \o "/"
    \o appConf.DeviceId \o "_button_shutdown/config"

\* DiscoveryTopic of the shutdown button (go.mod 68)
ShutdownDiscoveryTopic ==
    appConf.AutoDiscoveryPrefix \o "/button/" \o appConf.DeviceId \o "/"
    \o appConf.DeviceName \o "_button_shutdown/config"

\* Button{...}: shutdown (go.mod 53-80)
ShutdownButton ==
    [ Kind   |-> "Button",
      Action |-> "shutdown",
      DiscoveryTopic |-> ShutdownDiscoveryTopic,
      DiscoveryConfig |->
        [ Device          |-> GetDevice,
          Availability    |-> GetDeviceAvailability,
          DefaultEntityId |-> "button." \o appConf.DeviceName \o "_button_shutdown",
          UniqueId        |-> appConf.DeviceName \o "_button_shutdown",
          Name            |-> "Shutdown",
          Icon            |-> "mdi:power",
          StateTopic      |-> appConf.DeviceName \o "/button/shutdown/state",
          CommandTopic    |-> appConf.DeviceName \o "/button/shutdown/command",
          PayloadOn       |-> "",
          PayloadOff      |-> "",
          Qos             |-> 1 ] ]

\* A slip: the reboot button is given the shutdown button's command topic.
RebootCommandTopicShutdown == appConf.DeviceName \o "/button/shutdown/command"

\* CommandTopic of the reboot button (go.mod 106)
RebootCommandTopic == appConf.DeviceName \o "/button/reboot/command"

\* Button{...}: reboot (go.mod 81-109)
RebootButton ==
    [ Kind   |-> "Button",
      Action |-> "reboot",
      DiscoveryTopic |-> appConf.AutoDiscoveryPrefix \o "/button/"
                         \o appConf.DeviceId \o "/" \o appConf.DeviceName
                         \o "_button_reboot/config",
      DiscoveryConfig |->
        [ Device          |-> GetDevice,
          Availability    |-> GetDeviceAvailability,
          DefaultEntityId |-> "button." \o appConf.DeviceName \o "_button_reboot",
          UniqueId        |-> appConf.DeviceName \o "_button_reboot",
          Name            |-> "Reboot",
          Icon            |-> "mdi:restart",
          StateTopic      |-> appConf.DeviceName \o "/button/reboot/state",
          CommandTopic    |-> RebootCommandTopic,
          PayloadOn       |-> "",
          PayloadOff      |-> "",
          Qos             |-> 1 ] ]

\* A slip: the component is left out of the test button's state topic.
TestStateTopicNoComponent == appConf.DeviceName \o "/test/state"

\* StateTopic of the test button (go.mod 126)
TestStateTopic == appConf.DeviceName \o "/button/test/state"

\* Button{...}: the debug-mode test button; its Qos is left at Go's zero value
\* (go.mod 114-129)
TestButton ==
    [ Kind   |-> "Button",
      Action |-> "test",
      DiscoveryTopic |-> appConf.AutoDiscoveryPrefix \o "/button/"
                         \o appConf.DeviceId \o "/" \o appConf.DeviceName
                         \o "_button_test/config",
      DiscoveryConfig |->
        [ Device          |-> GetDevice,
          Availability    |-> GetDeviceAvailability,
          DefaultEntityId |-> "button." \o appConf.DeviceName \o "_button_test",
          UniqueId        |-> appConf.DeviceName \o "_button_test",
          Name            |-> "Test",
          Icon            |-> "mdi:test-tube",
          StateTopic      |-> TestStateTopic,
          CommandTopic    |-> appConf.DeviceName \o "/button/test/command",
          PayloadOn       |-> "",
          PayloadOff      |-> "",
          Qos             |-> 0 ] ]

\* A slip: the test button is appended whatever the debug flag says.
GetEntitiesAlwaysTest ==
    << PowerSensor, ShutdownButton, RebootButton, TestButton >>

GetEntities ==
    LET entityList == << PowerSensor, ShutdownButton, RebootButton >>
    IN  IF appConf.DebugMode THEN Append(entityList, TestButton) ELSE entityList

\* The entities exposing a command, in input order.
FilterEntitiesWithCommands(entityList) ==
    SelectSeq(entityList, LAMBDA ety : ety.Kind = "Button")

\* json.Marshal of a discovery config: the text that identifies the entity.
Marshal(cfg) == "{\"unique_id\":\"" \o cfg.UniqueId \o "\"}"

(***************************************************************************)
(* Configurations and inputs                                               *)
(***************************************************************************)
DeviceNames == {"office-pc", "pc", "den_pc"}
Prefixes    == {"homeassistant", "ha"}
DeviceIds   == {"abc123", "7f"}
Platforms   == {WINDOWS, MACOS, LINUX, "freebsd"}

Configs ==
    [ DeviceName : DeviceNames, DeviceId : DeviceIds,
      AutoDiscoveryPrefix : Prefixes, DebugMode : BOOLEAN ]

\* The configurations the lifecycle is explored under.
RunConfigs ==
    { c \in Configs : /\ c.DeviceName = "office-pc"
                      /\ c.DeviceId = "abc123"
                      /\ c.AutoDiscoveryPrefix = "homeassistant" }
RunPlatforms == {LINUX, "freebsd"}

Payloads == {"PRESS", ""}

Goroutines == 1..MaxConnects

NoDispatch == [ topic |-> "", payload |-> "", n |-> 0, handler |-> 0,
                invoked |-> <<>>, warned |-> FALSE ]
NoWill     == [ Topic |-> "", Payload |-> "", Qos |-> 0, Retained |-> FALSE ]
IdleGoroutine == [ pc |-> "idle", i |-> 0, entityList |-> <<>>,
                   entitiesWithCommands |-> <<>> ]

\* The topics whose retained value at the broker is observed: the host
\* availability topic, which carries the will.
Topics == { GetDeviceAvailability.Topic }

\* Topics an inbound message may carry: every command topic of the registry,
\* a state topic and a topic nobody registered.
InboundTopics ==
    { TestButton.DiscoveryConfig.CommandTopic,
      ShutdownButton.DiscoveryConfig.CommandTopic,
      RebootButton.DiscoveryConfig.CommandTopic,
      ShutdownButton.DiscoveryConfig.StateTopic,
      "bogus/topic" }

(***************************************************************************)
(* Initial state: the process has been started, nothing has run yet.       *)
(***************************************************************************)
InitProgram ==
    /\ queried = <<>>
    /\ mainPc = "load"
    /\ exited = FALSE
    /\ exitCode = 0
    /\ will = NoWill
    /\ sigChan = 0
    /\ sigsSent = 0
    /\ sigPc = "unborn"
    /\ shutdownTrace = <<>>
    /\ shutdownLog = ""
    /\ mainCtxDone = FALSE
    /\ connState = "disconnected"
    /\ connectToken = "none"
    /\ connects = 0
    /\ cbConnect = 0
    /\ connectionEstablished = 0
    /\ connectionLost = 0
    /\ initialConnectionDone = FALSE
    /\ spawned = 0
    /\ g = [k \in Goroutines |-> IdleGoroutine]
    /\ sent = [k \in Goroutines |-> <<>>]
    /\ subCalls = [k \in Goroutines |-> <<>>]
    /\ errorLogged = FALSE
    /\ retained = [t \in Topics |-> ""]
    /\ route = 0
    /\ brokerSubscribed = FALSE
    /\ messageCount = [k \in Goroutines |-> 0]
    /\ handled = 0
    /\ lastDispatch = NoDispatch
    /\ actionQueue = <<>>
    /\ actionLog = <<>>
    /\ startedCmds = <<>>
    /\ logged = {}

Init ==
    /\ appConf \in RunConfigs
    /\ goos = LINUX
    /\ InitProgram

\* The same, on a supported and on an unsupported platform.
DispatchInit ==
    /\ appConf \in RunConfigs
    /\ goos \in RunPlatforms
    /\ InitProgram

mainVars      == << mainPc >>
exitVars      == << exited, exitCode >>
signalVars    == << sigChan, sigsSent, sigPc, shutdownTrace, shutdownLog,
                    mainCtxDone >>
transportVars == << connState, connectToken, connects, cbConnect >>
channelVars   == << connectionEstablished, connectionLost >>
postVars      == << initialConnectionDone, spawned, g, sent, subCalls,
                    errorLogged >>
brokerVars    == << retained, route, brokerSubscribed >>
dispatchVars  == << messageCount, handled, lastDispatch, actionQueue,
                    actionLog, startedCmds, logged >>
configVars    == << appConf, goos, queried >>

(***************************************************************************)
(* func main (commands.go 65-114)                                          *)
(***************************************************************************)
\* log.Fatal / log.Fatalf / os.Exit(code)
Exit(code) == exited' = TRUE /\ exitCode' = code

\* appconfig.LoadConfig(): an error is fatal (70-72).
MainLoadConfig ==
    /\ ~exited
    /\ mainPc = "load"
    /\ \E ok \in BOOLEAN :
          IF ok THEN mainPc' = "create" /\ UNCHANGED exitVars
                ELSE mainPc' = "fatal" /\ Exit(1)
    /\ UNCHANGED << configVars, will, signalVars, transportVars, channelVars,
                    postVars, brokerVars, dispatchVars >>

\* signal.Notify(sigChan, ...) and client = createClient(): the options carry
\* the last will of the host availability (75-78, 252-254).
SetWill(topic, payload, qos, retain) ==
    will' = [ Topic |-> topic, Payload |-> payload, Qos |-> qos,
              Retained |-> retain ]

\* A slip: the will carries the "available" payload.
createClientWillOnline ==
    LET availability == GetDeviceAvailability
    IN  SetWill(availability.Topic, availability.PayloadAvailable, 1, TRUE)

createClient ==
    LET availability == GetDeviceAvailability
    IN  SetWill(availability.Topic, availability.PayloadNotAvailable, 1, TRUE)

MainCreateClient ==
    /\ ~exited
    /\ mainPc = "create"
    /\ createClient
    /\ mainPc' = "spawn"
    /\ UNCHANGED << configVars, exitVars, signalVars, transportVars,
                    channelVars, postVars, brokerVars, dispatchVars >>

\* go func() { sig := <-sigChan ... }() (85-92)
MainSpawnSignalHandler ==
    /\ ~exited
    /\ mainPc = "spawn"
    /\ sigPc' = "waiting"
    /\ mainPc' = "connect"
    /\ UNCHANGED << configVars, exitVars, will, sigChan, sigsSent,
                    shutdownTrace, shutdownLog, mainCtxDone, transportVars,
                    channelVars, postVars, brokerVars, dispatchVars >>

\* token := client.Connect() (95): the connection attempt starts.
MainConnect ==
    /\ ~exited
    /\ mainPc = "connect"
    /\ connState' = "connecting"
    /\ connectToken' = "pending"
    /\ mainPc' = "connect_wait"
    /\ UNCHANGED << configVars, exitVars, will, signalVars, connects,
                    cbConnect, channelVars, postVars, brokerVars,
                    dispatchVars >>

\* token.Wait() && token.Error() != nil (95-97): Wait returns only once the
\* token is complete.
MainConnectWait ==
    /\ ~exited
    /\ mainPc = "connect_wait"
    /\ connectToken \in {"ok", "error"}
    /\ IF connectToken = "error"
          THEN mainPc' = "fatal" /\ Exit(1)
          ELSE mainPc' = "select" /\ UNCHANGED exitVars
    /\ UNCHANGED << configVars, will, signalVars, transportVars, channelVars,
                    postVars, brokerVars, dispatchVars >>

\* case <-connectionEstablished (101-102), then lines 107-109.
MainSelectEstablished ==
    /\ ~exited
    /\ mainPc = "select"
    /\ connectionEstablished > 0
    /\ connectionEstablished' = connectionEstablished - 1
    /\ mainPc' = "running"
    /\ UNCHANGED << configVars, exitVars, will, signalVars, transportVars,
                    connectionLost, postVars, brokerVars, dispatchVars >>

\* case <-time.After(10 * time.Second) (103-104)
MainTimeout ==
    /\ ~exited
    /\ mainPc = "select"
    /\ connectionEstablished = 0
    /\ mainPc' = "fatal"
    /\ Exit(1)
    /\ UNCHANGED << configVars, will, signalVars, transportVars, channelVars,
                    postVars, brokerVars, dispatchVars >>

\* <-mainCtx.Done() (112-114): main returns and the process ends.
MainDone ==
    /\ ~exited
    /\ mainPc = "running"
    /\ mainCtxDone
    /\ mainPc' = "returned"
    /\ Exit(0)
    /\ UNCHANGED << configVars, will, signalVars, transportVars, channelVars,
                    postVars, brokerVars, dispatchVars >>

(***************************************************************************)
(* The process environment: termination signals (commands.go 75-76)        *)
(***************************************************************************)
\* signal.Notify never blocks: a signal that finds sigChan full is dropped.
OsSignal ==
    /\ ~exited
    /\ mainPc \notin {"load", "create"}
    /\ sigsSent < MaxSignals
    /\ sigsSent' = sigsSent + 1
    /\ sigChan' = IF sigChan = 0 THEN 1 ELSE sigChan
    /\ UNCHANGED << configVars, mainVars, exitVars, will, sigPc, shutdownTrace,
                    shutdownLog, mainCtxDone, transportVars, channelVars,
                    postVars, brokerVars, dispatchVars >>

(***************************************************************************)
(* The signal goroutine (85-92) and publishOfflineStatus (310-324)         *)
(***************************************************************************)
\* A slip: the goroutine goes straight to the disconnect.
SigReceiveSkipOffline ==
    /\ ~exited
    /\ sigPc = "waiting"
    /\ sigChan > 0
    /\ sigChan' = sigChan - 1
    /\ sigPc' = "disconnect"
    /\ shutdownTrace' = Append(shutdownTrace, "signal")
    /\ UNCHANGED << configVars, mainVars, exitVars, will, sigsSent, shutdownLog,
                    mainCtxDone, transportVars, channelVars, postVars,
                    brokerVars, dispatchVars >>

\* sig := <-sigChan (86)
SigReceive ==
    /\ ~exited
    /\ sigPc = "waiting"
    /\ sigChan > 0
    /\ sigChan' = sigChan - 1
    /\ sigPc' = "publish"
    /\ shutdownTrace' = Append(shutdownTrace, "signal")
    /\ UNCHANGED << configVars, mainVars, exitVars, will, sigsSent, shutdownLog,
                    mainCtxDone, transportVars, channelVars, postVars,
                    brokerVars, dispatchVars >>

\* token := client.Publish(availability.Topic, 1, true, payload) (312-315).
\* The token ends "ok" (acknowledged within the wait), "error", or is still
\* incomplete when the 2 s wait runs out ("timeout"); the broker stores the
\* retained message only if it received it over a live connection.  A client
\* that is neither connected nor connecting refuses the publish at once.
SigPublishOffline ==
    /\ ~exited
    /\ sigPc = "publish"
    /\ LET availability == GetDeviceAvailability
       IN  \E outcome \in {"ok", "error", "timeout"}, delivered \in BOOLEAN :
              /\ outcome = "ok" => delivered
              /\ outcome = "error" => ~delivered
              /\ connState = "disconnected" => outcome = "error"
              /\ delivered => connState = "connected"
              /\ retained' = IF delivered
                               THEN [retained EXCEPT ![availability.Topic] =
                                        availability.PayloadNotAvailable]
                               ELSE retained
              /\ sigPc' = outcome
              /\ shutdownTrace' = Append(shutdownTrace, "publish_offline")
    /\ UNCHANGED << configVars, mainVars, exitVars, will, sigChan, sigsSent,
                    shutdownLog, mainCtxDone, transportVars, channelVars,
                    postVars, route, brokerSubscribed, dispatchVars >>

\* if token.WaitTimeout(2s) && token.Error() != nil { log failure } else
\* { log success }; time.Sleep(500ms) (316-323)
OfflineLogLine(outcome) ==
    LET waitTimeout == outcome # "timeout"
        tokenError  == outcome = "error"
    IN  IF waitTimeout /\ tokenError
          THEN "Failed to publish offline status"
          ELSE "Offline status published successfully"

SigWaitTimeout ==
    /\ ~exited
    /\ sigPc \in {"ok", "error", "timeout"}
    /\ shutdownLog' = OfflineLogLine(sigPc)
    /\ shutdownTrace' = Append(shutdownTrace, "wait_returned")
    /\ sigPc' = "disconnect"
    /\ UNCHANGED << configVars, mainVars, exitVars, will, sigChan, sigsSent,
                    mainCtxDone, transportVars, channelVars, postVars,
                    brokerVars, dispatchVars >>

\* client.Disconnect(2000) (89): a clean disconnect, the will is discarded.
SigDisconnect ==
    /\ ~exited
    /\ sigPc = "disconnect"
    /\ connState' = "disconnected"
    /\ brokerSubscribed' = FALSE
    /\ shutdownTrace' = Append(shutdownTrace, "disconnect")
    /\ sigPc' = "cancel"
    /\ UNCHANGED << configVars, mainVars, exitVars, will, sigChan, sigsSent,
                    shutdownLog, mainCtxDone, connectToken, connects, cbConnect,
                    channelVars, postVars, retained, route,
                    dispatchVars >>

\* mainCancel() (90)
SigCancel ==
    /\ ~exited
    /\ sigPc = "cancel"
    /\ mainCtxDone' = TRUE
    /\ shutdownTrace' = Append(shutdownTrace, "cancel")
    /\ sigPc' = "exit"
    /\ UNCHANGED << configVars, mainVars, exitVars, will, sigChan, sigsSent,
                    shutdownLog, transportVars, channelVars, postVars,
                    brokerVars, dispatchVars >>

\* os.Exit(0) (91)
SigExit ==
    /\ ~exited
    /\ sigPc = "exit"
    /\ Exit(0)
    /\ shutdownTrace' = Append(shutdownTrace, "exit")
    /\ sigPc' = "exited"
    /\ UNCHANGED << configVars, mainVars, will, sigChan, sigsSent, shutdownLog,
                    mainCtxDone, transportVars, channelVars, postVars,
                    brokerVars, dispatchVars >>

(***************************************************************************)
(* The transport, as configured by createClient (232-302)                  *)
(***************************************************************************)
\* The broker accepts a connection attempt.  The Connect token completes and
\* the transport schedules the OnConnect callback.
BrokerAccepts(limit) ==
    /\ ~exited
    /\ connState \in {"connecting", "reconnecting"}
    /\ connects < limit
    /\ connects' = connects + 1
    /\ connState' = "connected"
    /\ connectToken' = IF connectToken = "pending" THEN "ok" ELSE connectToken
    /\ cbConnect' = cbConnect + 1
    /\ UNCHANGED << configVars, mainVars, exitVars, will, signalVars,
                    channelVars, postVars, brokerVars, dispatchVars >>

\* SetConnectRetry(true) (246): a failed attempt is retried and the Connect
\* token stays incomplete; it completes with an error only when the attempt is
\* abandoned because the client was disconnected meanwhile.
ConnectAborted ==
    /\ ~exited
    /\ connState = "disconnected"
    /\ connectToken = "pending"
    /\ connectToken' = "error"
    /\ UNCHANGED << configVars, mainVars, exitVars, will, signalVars, connState,
                    connects, cbConnect, channelVars, postVars,
                    brokerVars, dispatchVars >>

\* The connection breaks without a DISCONNECT.  SetAutoReconnect(true) (245)
\* makes the client reconnect; the broker publishes the will and, the session
\* being clean (244), forgets the subscriptions.  The transport runs the
\* ConnectionLost handler (285-292): a non-blocking send on connectionLost.
ConnectionLostHandler ==
    /\ ~exited
    /\ connState = "connected"
    /\ connState' = "reconnecting"
    /\ retained' = IF will.Retained /\ will.Topic \in DOMAIN retained
                     THEN [retained EXCEPT ![will.Topic] = will.Payload]
                     ELSE retained
    /\ brokerSubscribed' = FALSE
    /\ connectionLost' = IF connectionLost < 1 THEN connectionLost + 1
                                               ELSE connectionLost
    /\ UNCHANGED << configVars, mainVars, exitVars, will, signalVars,
                    connectToken, connects, cbConnect, connectionEstablished,
                    postVars, route, dispatchVars >>

\* A slip: a plain send instead of select/default, which blocks the callback
\* while the slot is taken.
OnConnectHandlerBlockingSend ==
    /\ ~exited
    /\ cbConnect > 0
    /\ connectionEstablished < 1
    /\ cbConnect' = cbConnect - 1
    /\ connectionEstablished' = connectionEstablished + 1
    /\ spawned' = spawned + 1
    /\ g' = [g EXCEPT ![spawned + 1].pc = "start"]
    /\ UNCHANGED << configVars, mainVars, exitVars, will, signalVars, connState,
                    connectToken, connects, connectionLost,
                    initialConnectionDone, sent, subCalls, errorLogged,
                    brokerVars, dispatchVars >>

\* The OnConnect handler (257-282): a non-blocking send on
\* connectionEstablished, then  go func() {...}().
OnConnectHandler ==
    /\ ~exited
    /\ cbConnect > 0
    /\ cbConnect' = cbConnect - 1
    /\ connectionEstablished' =
          IF connectionEstablished < 1 THEN connectionEstablished + 1
                                       ELSE connectionEstablished
    /\ spawned' = spawned + 1
    /\ g' = [g EXCEPT ![spawned + 1].pc = "start"]
    /\ UNCHANGED << configVars, mainVars, exitVars, will, signalVars, connState,
                    connectToken, connects, connectionLost,
                    initialConnectionDone, sent, subCalls, errorLogged,
                    brokerVars, dispatchVars >>

(***************************************************************************)
(* The post-connect goroutine (268-281), one per OnConnect callback         *)
(***************************************************************************)
\* client.Publish(topic, qos, retained, payload) followed by token.Wait():
\* the call is recorded; the token ends without error (ok) only over a live
\* connection, and then the broker has the message.
Publish(k, kind, ety, topic, qos, retain, payload, ok) ==
    /\ sent' = [sent EXCEPT ![k] =
                  Append(@, [ kind |-> kind,
                              entity |-> ety.DiscoveryConfig.UniqueId,
                              topic |-> topic, payload |-> payload,
                              qos |-> qos, retained |-> retain ])]
    /\ ok => connState = "connected"
    /\ retained' = IF ok /\ retain /\ topic \in DOMAIN retained
                     THEN [retained EXCEPT ![topic] = payload]
                     ELSE retained

\* What the goroutine does after reading the flag (272-278).
AfterFlagRead(flag) == IF ~flag THEN "disc" ELSE "avail"

\* entityList := GetEntities(); entitiesWithCommands := Filter...;
\* if !initialConnectionDone (269-272)
GStart(k) ==
    /\ ~exited
    /\ g[k].pc = "start"
    /\ g' = [g EXCEPT ![k].entityList = GetEntities,
                      ![k].entitiesWithCommands =
                          FilterEntitiesWithCommands(GetEntities),
                      ![k].pc = AfterFlagRead(initialConnectionDone),
                      ![k].i = 1]
    /\ UNCHANGED << configVars, mainVars, exitVars, will, signalVars,
                    transportVars, channelVars, initialConnectionDone, spawned,
                    sent, subCalls, errorLogged, brokerVars, dispatchVars >>

\* publishAutoDiscoveryConfigs (116-135): one loop iteration.
publishAutoDiscoveryConfigs(k) ==
    /\ ~exited
    /\ g[k].pc = "disc"
    /\ LET ety   == g[k].entityList[g[k].i]
           topic == ety.DiscoveryTopic
           last  == g[k].i = Len(g[k].entityList)
       IN  \E ok \in BOOLEAN :
              /\ Publish(k, "discovery", ety, topic, 1, TRUE,
                         Marshal(ety.DiscoveryConfig), ok)
              /\ g' = [g EXCEPT ![k].i = IF last THEN 0 ELSE @ + 1,
                                ![k].pc = IF last THEN "setflag" ELSE "disc"]
              /\ errorLogged' = (errorLogged \/ ~ok)
    /\ UNCHANGED << configVars, mainVars, exitVars, will, signalVars,
                    transportVars, channelVars, initialConnectionDone, spawned,
                    subCalls, route, brokerSubscribed, dispatchVars >>

\* initialConnectionDone = true (275)
GSetFlag(k) ==
    /\ ~exited
    /\ g[k].pc = "setflag"
    /\ initialConnectionDone' = TRUE
    /\ g' = [g EXCEPT ![k].pc = "avail", ![k].i = 1]
    /\ UNCHANGED << configVars, mainVars, exitVars, will, signalVars,
                    transportVars, channelVars, spawned, sent, subCalls,
                    errorLogged, brokerVars, dispatchVars >>

\* A slip: return instead of continue, so that a failed publish ends the loop.
publishAvailabilityReturnOnError(k) ==
    /\ ~exited
    /\ g[k].pc = "avail"
    /\ LET ety          == g[k].entityList[g[k].i]
           availability == ety.DiscoveryConfig.Availability
           payload      == availability.PayloadAvailable
           last         == g[k].i = Len(g[k].entityList)
       IN  \E ok \in BOOLEAN :
              /\ Publish(k, "availability", ety, availability.Topic, 1, TRUE,
                         payload, ok)
              /\ g' = [g EXCEPT ![k].i = IF last \/ ~ok THEN 1 ELSE @ + 1,
                                ![k].pc = IF last \/ ~ok THEN "state" ELSE "avail"]
              /\ errorLogged' = (errorLogged \/ ~ok)
    /\ UNCHANGED << configVars, mainVars, exitVars, will, signalVars,
                    transportVars, channelVars, initialConnectionDone, spawned,
                    subCalls, route, brokerSubscribed, dispatchVars >>

\* A slip: every "online" goes to the host availability topic, whatever the
\* entity's own availability says.
publishAvailabilityHostTopic(k) ==
    /\ ~exited
    /\ g[k].pc = "avail"
    /\ LET ety          == g[k].entityList[g[k].i]
           availability == GetDeviceAvailability
           payload      == availability.PayloadAvailable
           last         == g[k].i = Len(g[k].entityList)
       IN  \E ok \in BOOLEAN :
              /\ Publish(k, "availability", ety, availability.Topic, 1, TRUE,
                         payload, ok)
              /\ g' = [g EXCEPT ![k].i = IF last THEN 1 ELSE @ + 1,
                                ![k].pc = IF last THEN "state" ELSE "avail"]
              /\ errorLogged' = (errorLogged \/ ~ok)
    /\ UNCHANGED << configVars, mainVars, exitVars, will, signalVars,
                    transportVars, channelVars, initialConnectionDone, spawned,
                    subCalls, route, brokerSubscribed, dispatchVars >>

\* publishAvailability (137-151): one loop iteration.
publishAvailability(k) ==
    /\ ~exited
    /\ g[k].pc = "avail"
    /\ LET ety          == g[k].entityList[g[k].i]
           availability == ety.DiscoveryConfig.Availability
           payload      == availability.PayloadAvailable
           last         == g[k].i = Len(g[k].entityList)
       IN  \E ok \in BOOLEAN :
              /\ Publish(k, "availability", ety, availability.Topic, 1, TRUE,
                         payload, ok)
              /\ g' = [g EXCEPT ![k].i = IF last THEN 1 ELSE @ + 1,
                                ![k].pc = IF last THEN "state" ELSE "avail"]
              /\ errorLogged' = (errorLogged \/ ~ok)
    /\ UNCHANGED << configVars, mainVars, exitVars, will, signalVars,
                    transportVars, channelVars, initialConnectionDone, spawned,
                    subCalls, route, brokerSubscribed, dispatchVars >>

\* A slip in the type switch: every entity is taken for a sensor.
BinarySensorsAll(entityList) == entityList

\* The type switch of publishSensorStates (154-160).
BinarySensors(entityList) ==
    SelectSeq(entityList, LAMBDA ety : ety.Kind = "BinarySensor")

\* publishSensorStates (153-180): the early return on no sensor, or one loop
\* iteration.
publishSensorStates(k) ==
    /\ ~exited
    /\ g[k].pc = "state"
    /\ LET sensors == BinarySensors(g[k].entityList)
       IN  IF Len(sensors) = 0
             THEN /\ g' = [g EXCEPT ![k].pc = "subscribe", ![k].i = 0]
                  /\ UNCHANGED << sent, retained, errorLogged >>
             ELSE LET sensor  == sensors[g[k].i]
                      topic   == sensor.DiscoveryConfig.StateTopic
                      payload == sensor.DiscoveryConfig.PayloadOn
                      last    == g[k].i = Len(sensors)
                  IN  \E ok \in BOOLEAN :
                         /\ Publish(k, "state", sensor, topic, 1, TRUE, payload, ok)
                         /\ g' = [g EXCEPT ![k].i = IF last THEN 0 ELSE @ + 1,
                                           ![k].pc = IF last THEN "subscribe"
                                                             ELSE "state"]
                         /\ errorLogged' = (errorLogged \/ ~ok)
    /\ UNCHANGED << configVars, mainVars, exitVars, will, signalVars,
                    transportVars, channelVars, initialConnectionDone, spawned,
                    subCalls, route, brokerSubscribed, dispatchVars >>

\* A slip: the filters are registered at QoS 0.
FiltersQosZero(entitiesWithCommands) ==
    [ t \in { entitiesWithCommands[i].DiscoveryConfig.CommandTopic :
                 i \in 1..Len(entitiesWithCommands) } |-> 0 ]

\* filters := map[string]byte: every command topic at QoS 1 (215-220)
Filters(entitiesWithCommands) ==
    [ t \in { entitiesWithCommands[i].DiscoveryConfig.CommandTopic :
                 i \in 1..Len(entitiesWithCommands) } |-> 1 ]

\* subscribeToCommandTopics (182-230): nothing to do without commands;
\* otherwise one SubscribeMultiple(filters, handler) whose handler is this
\* call's closure.  The client routes the topics to the handler at once; the
\* broker holds the subscription if the request succeeded.
subscribeToCommandTopics(k) ==
    /\ ~exited
    /\ g[k].pc = "subscribe"
    /\ IF Len(g[k].entitiesWithCommands) = 0
         THEN /\ g' = [g EXCEPT ![k].pc = "done"]
              /\ UNCHANGED << subCalls, route, brokerSubscribed, errorLogged >>
         ELSE \E ok \in BOOLEAN :
                 /\ ok => connState = "connected"
                 /\ subCalls' = [subCalls EXCEPT ![k] =
                                   Append(@, Filters(g[k].entitiesWithCommands))]
                 /\ route' = k
                 /\ brokerSubscribed' = (brokerSubscribed \/ ok)
                 /\ g' = [g EXCEPT ![k].pc = "done"]
                 /\ errorLogged' = (errorLogged \/ ~ok)
    /\ UNCHANGED << configVars, mainVars, exitVars, will, signalVars,
                    transportVars, channelVars, initialConnectionDone, spawned,
                    sent, retained, dispatchVars >>

(***************************************************************************)
(* The command dispatcher: the handler closure (192-212)                   *)
(***************************************************************************)
\* The loop of the handler: the indices of entitiesWithCommands whose
\* QueueAction it calls, in order (it breaks at the first match).
RECURSIVE HandlerScanState(_, _, _)
\* A slip: the message topic is compared with the state topic.
HandlerScanState(entitiesWithCommands, topic, i) ==
    IF i > Len(entitiesWithCommands) THEN <<>>
    ELSE IF entitiesWithCommands[i].DiscoveryConfig.StateTopic = topic
           THEN << i >>
           ELSE HandlerScanState(entitiesWithCommands, topic, i + 1)

RECURSIVE HandlerScan(_, _, _)
HandlerScan(entitiesWithCommands, topic, i) ==
    IF i > Len(entitiesWithCommands) THEN <<>>
    ELSE IF entitiesWithCommands[i].DiscoveryConfig.CommandTopic = topic
           THEN << i >>
           ELSE HandlerScan(entitiesWithCommands, topic, i + 1)

\* Button.QueueAction: the action is handed to a background task.
QueueAction(queue, entity) == Append(queue, entity.Action)

RECURSIVE QueueAll(_, _, _)
QueueAll(queue, entitiesWithCommands, idx) ==
    IF idx = <<>> THEN queue
    ELSE QueueAll(QueueAction(queue, entitiesWithCommands[Head(idx)]),
                  entitiesWithCommands, Tail(idx))

\* The handler of goroutine k's subscribe call receives (topic, payload).
handler(k, topic, payload) ==
    /\ ~exited
    /\ route = k
    /\ connState = "connected"
    /\ brokerSubscribed
    /\ handled < MaxMessages
    /\ handled' = handled + 1
    /\ messageCount' = [messageCount EXCEPT ![k] = @ + 1]
    /\ LET ewc     == g[k].entitiesWithCommands
           hit     == HandlerScan(ewc, topic, 1)
           matched == hit # <<>>
       IN  /\ actionQueue' = QueueAll(actionQueue, ewc, hit)
           /\ lastDispatch' =
                 [ topic |-> topic, payload |-> payload,
                   n |-> messageCount[k] + 1, handler |-> k,
                   invoked |-> [j \in 1..Len(hit) |-> ewc[hit[j]].Action],
                   warned |-> ~matched ]
           /\ logged' = IF matched THEN logged
                        ELSE logged \cup {"Warning: Received message on unhandled topic"}
    /\ UNCHANGED << configVars, mainVars, exitVars, will, signalVars,
                    transportVars, channelVars, postVars, brokerVars,
                    actionLog, startedCmds >>

(***************************************************************************)
(* The button actions (go.mod 54-67, 82-96, 115-117)                       *)
(***************************************************************************)
\* What a shutdown or reboot action does with the platform's answer  r  and
\* the result of cmd.Start(): the command it started (<<>>: none), and its
\* last log line.
PowerAction(what, r, startOk) ==
    IF r.err # ""
      THEN [ outcome |-> "get_failed", cmd |-> <<>>,
             log |-> "Failed to get " \o what \o " command" ]
    ELSE IF ~startOk
      THEN [ outcome |-> "start_failed", cmd |-> <<>>,
             log |-> "Failed to start " \o what \o " command" ]
      ELSE [ outcome |-> "started", cmd |-> r.cmd,
             log |-> "System " \o what \o " initiated" ]

ButtonAction(action, startOk) ==
    CASE action = "shutdown" ->
            PowerAction("shutdown", GetShutdownCommand(goos), startOk)
      [] action = "reboot" ->
            PowerAction("reboot", GetRebootCommand(goos), startOk)
      [] OTHER ->
            [ outcome |-> "logged", cmd |-> <<>>, log |-> "Test button pressed" ]

\* A queued action runs.
RunAction ==
    \E i \in 1..Len(actionQueue), startOk \in BOOLEAN :
       LET action == actionQueue[i]
           res    == ButtonAction(action, startOk)
       IN  /\ ~exited
           /\ actionQueue' = [j \in 1..(Len(actionQueue) - 1) |->
                                 IF j < i THEN actionQueue[j]
                                          ELSE actionQueue[j + 1]]
           /\ actionLog' = Append(actionLog,
                                   [ action |-> action, outcome |-> res.outcome,
                                     log |-> res.log, after |-> handled ])
           /\ startedCmds' = IF res.cmd = <<>> THEN startedCmds
                                               ELSE Append(startedCmds, res.cmd)
           /\ logged' = logged \cup {res.log}
           /\ UNCHANGED << configVars, mainVars, exitVars, will, signalVars,
                           transportVars, channelVars, postVars, brokerVars,
                           messageCount, handled, lastDispatch >>

(***************************************************************************)
(* The specification of the running program                                *)
(***************************************************************************)
Startup ==
    \/ MainLoadConfig
    \/ MainCreateClient
    \/ MainSpawnSignalHandler
    \/ MainConnect
    \/ MainConnectWait
    \/ MainSelectEstablished
    \/ MainTimeout

Shutdown ==
    \/ OsSignal
    \/ SigReceive
    \/ SigPublishOffline
    \/ SigWaitTimeout
    \/ SigDisconnect
    \/ SigCancel
    \/ SigExit
    \/ ConnectAborted
    \/ MainDone

PostConnect ==
    \/ OnConnectHandler
    \/ \E k \in Goroutines : GStart(k)
    \/ \E k \in Goroutines : publishAutoDiscoveryConfigs(k)
    \/ \E k \in Goroutines : GSetFlag(k)
    \/ \E k \in Goroutines : publishAvailability(k)
    \/ \E k \in Goroutines : publishSensorStates(k)
    \/ \E k \in Goroutines : subscribeToCommandTopics(k)

\* The client hands an inbound message to the handler its router holds.
Deliver ==
    \E k \in Goroutines, topic \in InboundTopics, payload \in Payloads :
       handler(k, topic, payload)

Dispatch ==
    \/ Deliver
    \/ RunAction

\* The connection lifecycle and the publication protocol.
Next ==
    \/ Startup
    \/ BrokerAccepts(MaxConnects)
    \/ ConnectionLostHandler
    \/ PostConnect

Spec == Init /\ [][Next]_vars

\* The lifecycle with the shutdown path.
ShutdownNext ==
    \/ Startup
    \/ BrokerAccepts(ShutdownConnects)
    \/ ConnectionLostHandler
    \/ PostConnect
    \/ Shutdown

ShutdownSpec == Init /\ [][ShutdownNext]_vars

\* The command dispatcher on the first connection.
DispatchNext ==
    \/ Startup
    \/ BrokerAccepts(MaxConnects)
    \/ PostConnect
    \/ Dispatch

DispatchSpec == DispatchInit /\ [][DispatchNext]_vars

(***************************************************************************)
(* The entity registry as a function of the configuration                  *)
(***************************************************************************)
\* entityList := entities.GetEntities() (107, 269)
QueryRegistry ==
    /\ Len(queried) < MaxQueries
    /\ queried' = Append(queried, GetEntities)
    /\ UNCHANGED << appConf, goos, mainVars, exitVars, will, signalVars,
                    transportVars, channelVars, postVars, brokerVars,
                    dispatchVars >>

RegistryInit ==
    /\ appConf \in Configs
    /\ goos \in Platforms
    /\ InitProgram

RegistryNext == QueryRegistry

RegistrySpec == RegistryInit /\ [][RegistryNext]_vars

(***************************************************************************)
(* Properties                                                              *)
(***************************************************************************)
\* The client.Publish calls of goroutine k of one kind for one entity.
Recs(k, kind, uid) ==
    { j \in 1..Len(sent[k]) : sent[k][j].kind = kind /\ sent[k][j].entity = uid }

UniqueIds == { GetEntities[i].DiscoveryConfig.UniqueId : i \in 1..Len(GetEntities) }

HostTopic == GetDeviceAvailability.Topic

\* C1: the discovery config of every entity is published exactly once in the
\* process lifetime, whatever the connect / connection-lost / reconnect
\* events: over the post-connect sequences of all connection events together
\* there is at most one discovery publication per entity, and there is exactly
\* one as soon as some sequence has got past its discovery step.
C1_DiscoveryOnce ==
    LET ids == UniqueIds
    IN  \A uid \in ids :
           LET all == UNION { { << k, j >> : j \in Recs(k, "discovery", uid) } :
                              k \in Goroutines }
           IN  /\ Cardinality(all) <= 1
               /\ (\E k \in Goroutines :
                      g[k].pc \in {"setflag", "avail", "state", "subscribe", "done"})
                     => Cardinality(all) = 1

\* C2: every connection event gets its post-connect sequence, and a sequence
\* publishes "online" (QoS 1, retained) to the availability topic of every
\* entity exactly once and the on-state (QoS 1, retained) of every
\* BinarySensor exactly once: never twice, never for another entity, and once
\* each when the step is over.
C2_OncePerConnection ==
    LET ents == GetEntities
        ids  == { ents[i].DiscoveryConfig.UniqueId : i \in 1..Len(ents) }
    IN  /\ spawned + cbConnect = connects
        /\ \A k \in Goroutines :
              LET out == sent[k]
              IN  /\ \A j \in 1..Len(out) : out[j].entity \in ids
                  /\ \A i \in 1..Len(ents) :
                        LET cfg    == ents[i].DiscoveryConfig
                            av     == { j \in 1..Len(out) :
                                          /\ out[j].kind = "availability"
                                          /\ out[j].entity = cfg.UniqueId }
                            st     == { j \in 1..Len(out) :
                                          /\ out[j].kind = "state"
                                          /\ out[j].entity = cfg.UniqueId }
                            wanted == IF ents[i].Kind = "BinarySensor"
                                      THEN 1 ELSE 0
                        IN  /\ Cardinality(av) <= 1
                            /\ Cardinality(st) <= wanted
                            /\ g[k].pc \in {"state", "subscribe", "done"}
                                  => Cardinality(av) = 1
                            /\ g[k].pc \in {"subscribe", "done"}
                                  => Cardinality(st) = wanted
                            /\ \A j \in av :
                                  /\ out[j].payload = "online"
                                  /\ out[j].topic = cfg.Availability.Topic
                                  /\ out[j].qos = 1
                                  /\ out[j].retained
                            /\ \A j \in st :
                                  /\ out[j].payload = cfg.PayloadOn
                                  /\ out[j].topic = cfg.StateTopic
                                  /\ out[j].qos = 1
                                  /\ out[j].retained

\* Two connection events, both post-connect sequences run to their end.
C2_Witness ==
    /\ connects = 2
    /\ g[1].pc = "done"
    /\ g[2].pc = "done"

\* The entities with a command whose command topic is the given topic.
CommandMatches(topic) ==
    LET ewc == FilterEntitiesWithCommands(GetEntities)
    IN  { i \in 1..Len(ewc) : ewc[i].DiscoveryConfig.CommandTopic = topic }

\* C3: for the message the handler handled last: if its topic is the command
\* topic of some entity, exactly the action of the first such entity has been
\* queued, once, and no warning was logged; otherwise no action was queued and
\* the warning was logged.  The payload plays no part.
C3_Dispatch ==
    lastDispatch.n > 0 =>
       LET ewc == FilterEntitiesWithCommands(GetEntities)
           m   == CommandMatches(lastDispatch.topic)
       IN  IF m # {}
             THEN LET first == CHOOSE i \in m : \A j \in m : i <= j
                  IN  /\ lastDispatch.invoked = << ewc[first].Action >>
                      /\ ~lastDispatch.warned
             ELSE /\ lastDispatch.invoked = <<>>
                  /\ lastDispatch.warned
                  /\ "Warning: Received message on unhandled topic" \in logged

\* A message on the reboot command topic with an empty payload has been
\* handled, and the reboot action was queued.
C3_Witness ==
    /\ lastDispatch.n > 0
    /\ lastDispatch.topic = RebootButton.DiscoveryConfig.CommandTopic
    /\ lastDispatch.payload = ""
    /\ lastDispatch.invoked = << "reboot" >>

ShutdownOrder ==
    << "signal", "publish_offline", "wait_returned", "disconnect", "cancel", "exit" >>

\* C4: the shutdown path runs in the order: signal taken, offline publish
\* issued, its bounded wait returned, Disconnect called, context cancelled,
\* exit; and the process ends with status 0 only after Disconnect was called.
C4_ShutdownOrder ==
    /\ Len(shutdownTrace) <= Len(ShutdownOrder)
    /\ \A i \in 1..Len(shutdownTrace) : shutdownTrace[i] = ShutdownOrder[i]
    /\ (exited /\ exitCode = 0) =>
          \E i \in 1..Len(shutdownTrace) : shutdownTrace[i] = "disconnect"

\* The shutdown path has run to its end and the process has exited with 0.
C4_Witness ==
    /\ exited
    /\ exitCode = 0
    /\ shutdownTrace = ShutdownOrder

\* C5: once the signal goroutine has taken a termination signal, the process
\* ends with exit status 0, also when the signal came while the main flow was
\* still waiting for the initial connection (no connection established yet).
C5_SignalExitsZero ==
    (exited /\ shutdownTrace # <<>> /\ connects = 0) => exitCode = 0

\* The will is in place before the connect call, and it is what the broker
\* retains while the connection is lost.
C6_WillState ==
    /\ mainPc \notin {"load", "create", "fatal"} =>
          /\ will = [ Topic |-> HostTopic, Payload |-> "offline", Qos |-> 1,
                      Retained |-> TRUE ]
          /\ will.Topic = GetDeviceAvailability.Topic
          /\ will.Payload = GetDeviceAvailability.PayloadNotAvailable
    /\ connState \in {"connecting", "connected", "reconnecting"} => will.Topic # ""
    /\ connState = "reconnecting" => retained[HostTopic] = "offline"

\* The retained "offline" gives way only to a post-connect "online" publish.
C6_WillStep ==
    (retained[HostTopic] = "offline" /\ retained'[HostTopic] # "offline") =>
       /\ connState = "connected"
       /\ retained'[HostTopic] = "online"
       /\ \E k \in Goroutines :
             /\ Len(sent'[k]) = Len(sent[k]) + 1
             /\ sent'[k][Len(sent'[k])].topic = HostTopic
             /\ sent'[k][Len(sent'[k])].payload = "online"

C7_StartupTimeoutArmed ==
    (~exited /\ mainPc = "connect_wait" /\ connectToken = "pending")
       => ENABLED MainTimeout

Supported == { WINDOWS, MACOS, LINUX }

FailedActions ==
    { i \in 1..Len(actionLog) :
         actionLog[i].outcome \in {"get_failed", "start_failed"} }

\* C8: a shutdown or reboot action that cannot get or start its command
\* starts no OS command and logs the error; on an unsupported platform no
\* command is ever started; no action ends the process, and the dispatcher
\* still takes the next message.
C8_FailSoft ==
    /\ goos \notin Supported => startedCmds = <<>>
    /\ \A i \in 1..Len(actionLog) :
          LET a == actionLog[i]
          IN  /\ (a.action \in {"shutdown", "reboot"} /\ goos \notin Supported)
                    => a.outcome = "get_failed"
              /\ a.outcome = "get_failed"
                    => a.log = "Failed to get " \o a.action \o " command"
              /\ a.outcome = "start_failed"
                    => a.log = "Failed to start " \o a.action \o " command"
              /\ a.log \in logged
    /\ Len(startedCmds) =
          Cardinality({ i \in 1..Len(actionLog) : actionLog[i].outcome = "started" })
    /\ exited => mainPc = "fatal"
    /\ ( /\ FailedActions # {}
         /\ ~exited /\ route # 0 /\ connState = "connected" /\ brokerSubscribed
         /\ handled < MaxMessages )
          => ENABLED Deliver

\* On an unsupported platform an action failed, and a later message was
\* handled all the same.
C8_Witness ==
    /\ goos \notin Supported
    /\ \E i \in FailedActions :
          /\ actionLog[i].outcome = "get_failed"
          /\ actionLog[i].after < handled
    /\ ~exited

\* C9: GetEntities returns, in this order, the power BinarySensor, the
\* shutdown Button, the reboot Button and, if and only if debug mode is set,
\* the test Button (whose action only logs): 3 entities, or 4 in debug mode.
C9_RegistryShape ==
    \A q \in 1..Len(queried) :
       LET l == queried[q]
       IN  /\ Len(l) = IF appConf.DebugMode THEN 4 ELSE 3
           /\ l[1].Kind = "BinarySensor" /\ l[1].DiscoveryConfig.Name = "Power"
           /\ l[1].Action = "none"
           /\ l[2].Kind = "Button" /\ l[2].Action = "shutdown"
           /\ l[2].DiscoveryConfig.Name = "Shutdown"
           /\ l[3].Kind = "Button" /\ l[3].Action = "reboot"
           /\ l[3].DiscoveryConfig.Name = "Reboot"
           /\ Len(l) = 4 =>
                 /\ l[4].Kind = "Button" /\ l[4].Action = "test"
                 /\ l[4].DiscoveryConfig.Name = "Test"
                 /\ \A ok \in BOOLEAN : ButtonAction(l[4].Action, ok).cmd = <<>>

\* GetEntities has been called in debug mode and has returned four entities.
C9_Witness ==
    /\ Len(queried) >= 1
    /\ appConf.DebugMode
    /\ Len(queried[1]) = 4

\* The naming templates.
DiscoveryTemplate(prefix, component, deviceId, deviceName, suffix) ==
    prefix \o "/" \o component \o "/" \o deviceId \o "/" \o deviceName \o "_"
    \o suffix \o "/config"
UniqueIdTemplate(deviceName, suffix) == deviceName \o "_" \o suffix
Component(ety) == IF ety.Kind = "BinarySensor" THEN "binary_sensor" ELSE "button"
Suffixes == << "sensor_power", "button_shutdown", "button_reboot", "button_test" >>

\* C10: every entity's discovery topic is
\* {prefix}/{component}/{deviceId}/{deviceName}_{suffix}/config and its
\* unique id {deviceName}_{suffix}; two calls under one configuration return
\* the same; and deviceName "office-pc" with prefix "homeassistant" gives the
\* shutdown command topic office-pc/button/shutdown/command and the discovery
\* topic homeassistant/button/<deviceId>/office-pc_button_shutdown/config.
C10_Templates ==
    /\ \A q \in 1..Len(queried) :
          LET l == queried[q]
          IN  /\ \A i \in 1..Len(l) :
                    /\ l[i].DiscoveryTopic =
                          DiscoveryTemplate(appConf.AutoDiscoveryPrefix, Component(l[i]),
                                            appConf.DeviceId, appConf.DeviceName,
                                            Suffixes[i])
                    /\ l[i].DiscoveryConfig.UniqueId =
                          UniqueIdTemplate(appConf.DeviceName, Suffixes[i])
              /\ ( appConf.DeviceName = "office-pc"
                   /\ appConf.AutoDiscoveryPrefix = "homeassistant" ) =>
                    /\ l[2].DiscoveryConfig.CommandTopic =
                          "office-pc/button/shutdown/command"
                    /\ l[2].DiscoveryTopic =
                          "homeassistant/button/" \o appConf.DeviceId
                          \o "/office-pc_button_shutdown/config"
    /\ \A q1, q2 \in 1..Len(queried) :
          \A i \in 1..Len(queried[q1]) :
             /\ queried[q1][i].DiscoveryTopic = queried[q2][i].DiscoveryTopic
             /\ queried[q1][i].DiscoveryConfig.UniqueId
                   = queried[q2][i].DiscoveryConfig.UniqueId

\* GetEntities has been called twice under deviceName "office-pc" and prefix
\* "homeassistant".
C10_Witness ==
    /\ Len(queried) = 2
    /\ appConf.DeviceName = "office-pc"
    /\ appConf.AutoDiscoveryPrefix = "homeassistant"

\* The state and command topic templates; the name an entity has in them.
StateTemplate(deviceName, component, suffix) ==
    deviceName \o "/" \o component \o "/" \o suffix \o "/state"
CommandTemplate(deviceName, component, suffix) ==
    deviceName \o "/" \o component \o "/" \o suffix \o "/command"
TopicNames == << "power", "shutdown", "reboot", "test" >>
HasCommand(ety) == ety.DiscoveryConfig.CommandTopic # ""

\* C11 as stated: every entity's state topic is
\* {deviceName}/{component}/{suffix}/state, the suffix being the entity's name
\* in its topics or its discovery suffix, and the command topic of every
\* entity with a command is {deviceName}/{component}/{suffix}/command.
C11_TopicTemplates ==
    \A q \in 1..Len(queried) :
       \A i \in 1..Len(queried[q]) :
          LET ety == queried[q][i]
          IN  \E suffix \in { TopicNames[i], Suffixes[i] } :
                 /\ ety.DiscoveryConfig.StateTopic =
                       StateTemplate(appConf.DeviceName, Component(ety), suffix)
                 /\ HasCommand(ety) =>
                       ety.DiscoveryConfig.CommandTopic =
                          CommandTemplate(appConf.DeviceName, Component(ety), suffix)

\* C11 amended: every Button's state topic is {deviceName}/button/{name}/state
\* and its command topic {deviceName}/button/{name}/command, name being
\* shutdown, reboot or test; the BinarySensor's state topic is the host
\* availability topic {deviceName}/state and it has no command topic.
C11_ButtonTopicTemplates ==
    \A q \in 1..Len(queried) :
       \A i \in 1..Len(queried[q]) :
          LET ety == queried[q][i]
              cfg == ety.DiscoveryConfig
          IN  IF ety.Kind = "Button"
                THEN /\ cfg.StateTopic =
                           StateTemplate(appConf.DeviceName, "button", TopicNames[i])
                     /\ cfg.CommandTopic =
                           CommandTemplate(appConf.DeviceName, "button", TopicNames[i])
                ELSE /\ cfg.StateTopic = appConf.DeviceName \o "/state"
                     /\ cfg.StateTopic = GetDeviceAvailability.Topic
                     /\ ~HasCommand(ety)

\* GetEntities has returned the sensor and the three buttons under a device
\* name with a hyphen.
C11_Witness ==
    /\ Len(queried) >= 1
    /\ Len(queried[1]) = 4
    /\ appConf.DeviceName = "office-pc"
    /\ queried[1][4].DiscoveryConfig.StateTopic = "office-pc/button/test/state"

\* C12: in every list GetEntities returns, no two entities have the same
\* discovery topic, no two entities with a command have the same command
\* topic, and so every command topic belongs to exactly one action.
C12_DistinctTopics ==
    \A q \in 1..Len(queried) :
       LET l == queried[q]
       IN  /\ \A i, j \in 1..Len(l) :
                 i # j => l[i].DiscoveryTopic # l[j].DiscoveryTopic
           /\ \A i, j \in 1..Len(l) :
                 (i # j /\ HasCommand(l[i]) /\ HasCommand(l[j])) =>
                    l[i].DiscoveryConfig.CommandTopic
                       # l[j].DiscoveryConfig.CommandTopic
           /\ \A i \in 1..Len(l) :
                 HasCommand(l[i]) =>
                    Cardinality({ l[j].Action : j \in { n \in 1..Len(l) :
                        l[n].DiscoveryConfig.CommandTopic
                           = l[i].DiscoveryConfig.CommandTopic } }) = 1

\* GetEntities has returned four entities, three of them with a command.
C12_Witness ==
    /\ Len(queried) >= 1
    /\ Cardinality({ i \in 1..Len(queried[1]) : HasCommand(queried[1][i]) }) = 3
    /\ Len(queried[1]) = 4
    /\ appConf.DeviceName = "den_pc"

\* The post-connect sequences that are running, and those that have read the
\* flag as false and not yet set it.
InProgress == { k \in Goroutines : g[k].pc \notin {"idle", "done"} }
SawFalse   == { k \in Goroutines : g[k].pc \in {"disc", "setflag"} }

\* C13: at most one post-connect sequence is in progress at any time, and no
\* two sequences have both read the discovery-published flag as false: the
\* sequence that read it as false sets it before any later one reads it.
C13_OneSequenceAtATime ==
    /\ Cardinality(InProgress) <= 1
    /\ Cardinality(SawFalse) <= 1

\* A step of the OnConnect callback, a step of the ConnectionLost callback,
\* and main's receive from connectionEstablished.
OnConnectStep == cbConnect' = cbConnect - 1
LostStep      == connState = "connected" /\ connState' = "reconnecting"
ReceiveStep   == mainPc = "select" /\ mainPc' = "running"

\* Each channel holds at most one signal, and a callback that is due can
\* always run: its send never blocks.
C14_State ==
    /\ connectionEstablished \in 0..1
    /\ connectionLost \in 0..1
    /\ (~exited /\ cbConnect > 0) => ENABLED OnConnectHandler
    /\ (~exited /\ connState = "connected") => ENABLED ConnectionLostHandler

\* A signal generated while no consumer is waiting is dropped.  Only main
\* receives from connectionEstablished, in its select (100-101); nothing
\* receives from connectionLost.
C14_DropStep ==
    /\ (OnConnectStep /\ mainPc # "select") =>
          connectionEstablished' = connectionEstablished
    /\ LostStep => connectionLost' = connectionLost

\* C14 as stated: the callbacks never block on their channel, each channel
\* holds at most one pending signal, and a signal generated while no consumer
\* is waiting on the channel is dropped, not kept for a later consumer.
C14_DroppedWithoutConsumer == []C14_State /\ [][C14_DropStep]_vars

\* A signal generated while the slot is free is kept, consumer or not, until
\* it is received; a signal generated while the slot is taken is dropped.
C14_SlotStep ==
    /\ OnConnectStep => connectionEstablished' = 1
    /\ LostStep => connectionLost' = 1
    /\ connectionEstablished' < connectionEstablished => ReceiveStep
    /\ connectionLost' >= connectionLost

\* C14 amended: the callbacks never block on their channel, each channel
\* holds at most one pending signal, a signal generated while the channel is
\* empty is kept in its one slot for a later consumer whether or not a
\* consumer is waiting, and a signal generated while the slot is taken is
\* dropped.
C14_OneSlot == []C14_State /\ [][C14_SlotStep]_vars

\* Two OnConnect callbacks have run before main received anything: the first
\* signal is kept, the second was dropped; a connection-lost signal is kept.
C14_Witness ==
    /\ spawned = 2
    /\ mainPc = "connect_wait"
    /\ connectionEstablished = 1
    /\ connectionLost = 1

\* The place of a publication in the post-connect sequence.
StepRank(kind) ==
    CASE kind = "discovery"    -> 1
      [] kind = "availability" -> 2
      [] kind = "state"        -> 3

\* The publications of every sequence are in step order, and the subscribe
\* call comes after all of them.
C15_Order ==
    \A k \in Goroutines :
       /\ \A i, j \in 1..Len(sent[k]) :
             i < j => StepRank(sent[k][i].kind) <= StepRank(sent[k][j].kind)
       /\ subCalls[k] # <<>> => g[k].pc = "done"

\* Nothing is published after the subscribe call, and the OnConnect callback
\* returns having published and subscribed nothing itself.
C15_Step ==
    /\ \A k \in Goroutines : subCalls[k] # <<>> => sent'[k] = sent[k]
    /\ OnConnectStep => (sent' = sent /\ subCalls' = subCalls)

\* The discovery step belongs to the sequence of the first connection only.
C15_DiscoveryFirstOnly ==
    \A k \in Goroutines :
       k > 1 => \A j \in 1..Len(sent[k]) : sent[k][j].kind # "discovery"

\* C15: within one post-connect sequence the steps run in the order discovery
\* configs (in the sequence of the first connection only), availability
\* "online", BinarySensor states, subscribe; and the sequence runs
\* asynchronously: the OnConnect callback returns without waiting for any
\* publish or subscribe.
C15_StepOrder ==
    [](C15_Order /\ C15_DiscoveryFirstOnly) /\ [][C15_Step]_vars

\* The order and the asynchrony alone.
C15_OrderOnly == []C15_Order /\ [][C15_Step]_vars

\* The number of publications of a kind a sequence has issued.
Issued(k, kind) ==
    Cardinality({ j \in 1..Len(sent[k]) : sent[k][j].kind = kind })

\* A sequence that has come to its end has attempted every item of every
\* step, whether or not an error was logged on the way.
C16_AllAttempted ==
    \A k \in Goroutines :
       g[k].pc = "done" =>
          /\ Issued(k, "discovery") \in {0, Len(g[k].entityList)}
          /\ Issued(k, "availability") = Len(g[k].entityList)
          /\ Issued(k, "state") = Len(BinarySensors(g[k].entityList))
          /\ Len(subCalls[k]) = 1

\* Every step of a sequence, failed or not, issues its item, goes on to the
\* next item or the next step, and leaves the process running.
C16_Step ==
    \A k \in Goroutines :
       g'[k] # g[k] =>
          LET pc   == g[k].pc
              i    == g[k].i
              n    == IF pc = "state" THEN Len(BinarySensors(g[k].entityList))
                                      ELSE Len(g[k].entityList)
              next == CASE pc = "disc"  -> "setflag"
                        [] pc = "avail" -> "state"
                        [] pc = "state" -> "subscribe"
                        [] OTHER        -> "done"
          IN  /\ exited' = exited
              /\ pc \in {"disc", "avail", "state"} =>
                    /\ Len(sent'[k]) = Len(sent[k]) + 1
                    /\ IF i < n THEN g'[k].pc = pc /\ g'[k].i = i + 1
                                ELSE g'[k].pc = next
              /\ pc = "subscribe" =>
                    /\ Len(subCalls'[k]) = Len(subCalls[k]) + 1
                    /\ g'[k].pc = "done"

\* C16: a failed publish (discovery, availability, sensor state) or a failed
\* subscribe is logged and touches only its own item: the remaining items of
\* the step and the later steps of the sequence are still attempted, and the
\* process does not exit.
C16_FailureIsLocal == []C16_AllAttempted /\ [][C16_Step]_vars

\* With one connection only, an error was logged and the sequence has still
\* come to its end with every item attempted, in a process that runs on.
C16_Witness ==
    /\ connects = 1
    /\ errorLogged
    /\ ~exited
    /\ g[1].pc = "done"
    /\ Issued(1, "discovery") = Len(g[1].entityList)
    /\ Issued(1, "availability") = Len(g[1].entityList)
    /\ Len(subCalls[1]) = 1

\* The command topics of the entities GetEntities returns.
CommandTopics ==
    { GetEntities[i].DiscoveryConfig.CommandTopic :
         i \in { n \in 1..Len(GetEntities) : HasCommand(GetEntities[n]) } }

\* C17: every post-connect sequence issues exactly one batched subscribe
\* request, as its last step: its topics are the command topics of all
\* entities with a command, each at QoS 1, all bound to the one handler of the
\* request.  It would issue none only with no entity with a command.
C17_OneBatchedSubscribe ==
    LET topics == CommandTopics
    IN  \A k \in Goroutines :
           /\ Len(subCalls[k]) <= 1
           /\ (g[k].pc = "done" /\ topics # {}) => Len(subCalls[k]) = 1
           /\ topics = {} => subCalls[k] = <<>>
           /\ \A c \in 1..Len(subCalls[k]) :
                 /\ DOMAIN subCalls[k][c] = topics
                 /\ \A t \in topics : subCalls[k][c][t] = 1
           /\ route # 0 => subCalls[route] # <<>>

\* The sequences of a first connection and of a reconnect have both
\* subscribed, in debug mode, to the three command topics.
C17_Witness ==
    /\ appConf.DebugMode
    /\ g[1].pc = "done"
    /\ g[2].pc = "done"
    /\ Len(subCalls[1]) = 1
    /\ Len(subCalls[2]) = 1
    /\ Cardinality(DOMAIN subCalls[2][1]) = 3

\* The availability publications of the post-connect sequences.
AvailabilityRecs ==
    { r \in UNION { { sent[k][j] : j \in 1..Len(sent[k]) } : k \in Goroutines } :
         r.kind = "availability" }

\* C18 as stated: every entity GetEntities returns has the availability topic
\* and payloads of GetDeviceAvailability, so every availability publication
\* of a connection event goes to the topic of the last will and of the
\* shutdown path's "offline".
C18_SingleAvailabilityChannel ==
    /\ \A k \in Goroutines : \A i \in 1..Len(g[k].entityList) :
          g[k].entityList[i].DiscoveryConfig.Availability = GetDeviceAvailability
    /\ \A r \in AvailabilityRecs : r.topic = GetDeviceAvailability.Topic
    /\ will # NoWill => will.Topic = GetDeviceAvailability.Topic

\* The BinarySensor's own availability.
SensorAvailability ==
    [ Topic               |-> appConf.DeviceName \o "/binary_sensor/availability",
      PayloadAvailable    |-> "online",
      PayloadNotAvailable |-> "offline" ]

\* C18 amended: every Button has the availability topic and payloads of
\* GetDeviceAvailability; the BinarySensor has an availability topic of its
\* own, {deviceName}/binary_sensor/availability, with the same payloads.  The
\* availability publications of a connection event go to the host topic for
\* the Buttons and to the sensor's topic for the sensor; the last will and the
\* shutdown path's "offline" go to the host topic {deviceName}/state.
C18_ButtonsShareHostAvailability ==
    /\ GetDeviceAvailability.Topic = appConf.DeviceName \o "/state"
    /\ \A k \in Goroutines : \A i \in 1..Len(g[k].entityList) :
          LET ety == g[k].entityList[i]
          IN  ety.DiscoveryConfig.Availability =
                 IF ety.Kind = "Button" THEN GetDeviceAvailability
                                        ELSE SensorAvailability
    /\ \A r \in AvailabilityRecs :
          r.topic = IF r.entity = PowerSensor.DiscoveryConfig.UniqueId
                      THEN SensorAvailability.Topic
                      ELSE GetDeviceAvailability.Topic
    /\ will # NoWill => will.Topic = GetDeviceAvailability.Topic
    /\ retained[GetDeviceAvailability.Topic] = "offline" =>
          \/ connects > 0 /\ will.Topic = GetDeviceAvailability.Topic
          \/ \E n \in 1..Len(shutdownTrace) : shutdownTrace[n] = "publish_offline"

\* A sequence has published the availability of every entity, and the
\* shutdown path has published "offline", which the broker holds.
C18_Witness ==
    /\ g[1].pc = "done"
    /\ Cardinality(AvailabilityRecs) >= 2
    /\ \E n \in 1..Len(shutdownTrace) : shutdownTrace[n] = "publish_offline"
    /\ retained[GetDeviceAvailability.Topic] = "offline"

\* The shutdown path has issued its "offline" publish.
OfflineIssued ==
    \E n \in 1..Len(shutdownTrace) : shutdownTrace[n] = "publish_offline"

\* A step in which a post-connect sequence issues "online" to the host
\* availability topic.
OnlineIssuedStep ==
    \E k \in Goroutines :
       /\ Len(sent'[k]) = Len(sent[k]) + 1
       /\ sent'[k][Len(sent'[k])].topic = GetDeviceAvailability.Topic
       /\ sent'[k][Len(sent'[k])].payload = "online"

\* C19: once the shutdown path has issued its "offline" publish to the host
\* availability topic, the process issues no "online" publish to that topic
\* any more, however the signal goroutine and a running post-connect
\* goroutine interleave.
C19_NoOnlineAfterOffline == [][OfflineIssued => ~OnlineIssuedStep]_vars

\* C20: the shutdown path logs the offline publish as successful only when
\* the publish completed without error within the 2-second wait; when it
\* returned an error or did not complete in time it logs a failure; in both
\* cases it goes on to the disconnect.
C20_OfflineReport ==
    [][ (sigPc \in {"ok", "error", "timeout"} /\ sigPc' # sigPc) =>
           /\ shutdownLog' = IF sigPc = "ok"
                                THEN "Offline status published successfully"
                                ELSE "Failed to publish offline status"
           /\ sigPc' = "disconnect" ]_vars

====
